---- MODULE Spec2Model ----
(***************************************************************************)
(* Model of wasm-mini (src/wasm-mini/src/main.cpp): a command line front   *)
(* end that routes a verb to one of three pipeline entry points (cmdParse, *)
(* cmdValidate, cmdInstantiate).  Each entry point acquires engine handles *)
(* through RAII wrappers, runs the engine operations in order, emits one   *)
(* structured record and returns an exit code.                             *)
(*                                                                         *)
(* The engine (WasmEdge C API) and the file system are external: every     *)
(* answer they give is a nondeterministic input of the action that asks.   *)
(***************************************************************************)
EXTENDS Integers, Sequences, FiniteSets, TLC

VARIABLES
    pc,            \* position of the single thread of control
    argv,          \* argv[1..argc-1] (argv[0] is the program name)
    argIndex,      \* main: index of the argument being looked at (1-based, as in C)
    g_verbose,     \* global verbose flag
    command,       \* main: the verb, "" until read
    filename,      \* main: the path argument, "" until read
    fsKind,        \* what the file system said about filename
    parserCtx,     \* engine-side state of the handle held by ParserPtr
    astModuleCtx,  \* ... by ASTModulePtr
    validatorCtx,  \* ... by ValidatorPtr
    vmCtx,         \* ... by VMPtr
    locals,        \* RAII objects of the running entry point, in construction order
    stdout,        \* items written to std::cout
    stderr,        \* items written to std::cerr
    ret,           \* <<>> while running, <<code>> once a return value is set
    entered,       \* pipeline entry point that was entered, "" if none
    lastResult,    \* the entry point's local `result`: what the last engine operation returned
    log            \* history of engine calls, releases and reporter records

vars == <<pc, argv, argIndex, g_verbose, command, filename, fsKind, parserCtx,
          astModuleCtx, validatorCtx, vmCtx, locals, stdout, stderr, ret,
          entered, lastResult, log>>

\* ------------------------------------------------------------------------
\* Bounds
\* ------------------------------------------------------------------------
MaxArgs == 3        \* at most this many arguments after the program name
MaxErrCode == 2     \* engine error codes of a failed call range over 1..MaxErrCode

\* ------------------------------------------------------------------------
\* Program constants
\* ------------------------------------------------------------------------
EXIT_OK == 0
EXIT_CLI_ERROR == 1
EXIT_RUNTIME_ERROR == 2

\* ------------------------------------------------------------------------
\* Inputs
\* ------------------------------------------------------------------------
Tokens == {"-h", "--version", "--verbose", "parse", "validate", "instantiate",
           "run", "a.wasm", "b.bin"}

\* the characters of a token (std::string contents)
Chars(t) ==
    CASE t = "-h"          -> <<"-", "h">>
      [] t = "--version"   -> <<"-", "-", "v", "e", "r", "s", "i", "o", "n">>
      [] t = "--verbose"   -> <<"-", "-", "v", "e", "r", "b", "o", "s", "e">>
      [] t = "parse"       -> <<"p", "a", "r", "s", "e">>
      [] t = "validate"    -> <<"v", "a", "l", "i", "d", "a", "t", "e">>
      [] t = "instantiate" -> <<"i", "n", "s", "t", "a", "n", "t", "i", "a", "t", "e">>
      [] t = "run"         -> <<"r", "u", "n">>
      [] t = "a.wasm"      -> <<"a", ".", "w", "a", "s", "m">>
      [] t = "b.bin"       -> <<"b", ".", "b", "i", "n">>
      [] OTHER             -> <<>>

RECURSIVE ArgvOfLen(_)
ArgvOfLen(n) ==
    IF n = 0 THEN {<<>>}
    ELSE {Append(a, t) : a \in ArgvOfLen(n - 1), t \in Tokens}

Argvs == UNION {ArgvOfLen(n) : n \in 0..MaxArgs}

\* handle states as the engine sees them
Null == "null"
Live == "live"
Freed == "freed"

\* WasmEdge_Result values.  NullMsg stands for a null const char*.
NullMsg == "<null>"
Messages == {NullMsg, "", "unexpected end"}
OkResult == [ok |-> TRUE, code |-> 0, msg |-> "success"]
FailResults == [ok : {FALSE}, code : 1..MaxErrCode, msg : Messages]
Results == {OkResult} \cup FailResults

WasmEdge_ResultOK(result) == result.ok
WasmEdge_ResultGetCode(result) == result.code
WasmEdge_ResultGetMessage(result) == result.msg

\* ------------------------------------------------------------------------
\* History
\* ------------------------------------------------------------------------
\* an engine call: op is the API function, ok its outcome (non-null handle or
\* ok result), on the states of the handles passed to it, out the handle it
\* produced ("" if it produces none)
Call(op, ok, on, out) == [op |-> op, ok |-> ok, on |-> on, out |-> out]
\* a reporter record being written
Emit(kind) == [op |-> "Report", ok |-> kind = "success", on |-> {}, out |-> kind]

CreateOps == {"WasmEdge_ParserCreate", "WasmEdge_ValidatorCreate", "WasmEdge_VMCreate"}
OperateOps == {"WasmEdge_ParserParseFromFile", "WasmEdge_ValidatorValidate",
               "WasmEdge_VMLoadWasmFromFile", "WasmEdge_VMValidate",
               "WasmEdge_VMInstantiate"}
DeleteOps == {"WasmEdge_ParserDelete", "WasmEdge_ASTModuleDelete",
              "WasmEdge_ValidatorDelete", "WasmEdge_VMDelete"}

\* ------------------------------------------------------------------------
\* RAII deleters: TRUE iff the engine's delete function is called on ctx
\* ------------------------------------------------------------------------
\* mutant: the null test is missing
ParserDeleter_Unchecked(ctx) == TRUE
ParserDeleter(ctx) == ctx # Null
ValidatorDeleter(ctx) == ctx # Null
\* mutant: the module is never given back
ASTModuleDeleter_Leak(ctx) == FALSE
\* mutant: the null test is missing
ASTModuleDeleter_Unchecked(ctx) == TRUE
ASTModuleDeleter(ctx) == ctx # Null
VMDeleter(ctx) == ctx # Null

\* ------------------------------------------------------------------------
\* Output helpers: each yields the items the helper writes, every item tagged
\* with the stream it is written to
\* ------------------------------------------------------------------------
printUsage == <<[kind |-> "usage", stream |-> "cout"]>>
printVersion == <<[kind |-> "version", stream |-> "cout"]>>
printCliError(message) == <<[kind |-> "cliError", stream |-> "cerr", text |-> message]>>

\* mutant: the status argument is dropped
printWasmEdgeError_FixedStatus(cmd, file, status, result) ==
    <<[kind |-> "failure", stream |-> "cerr", command |-> cmd, file |-> file,
       status |-> "FAILED", code |-> WasmEdge_ResultGetCode(result),
       message |-> IF WasmEdge_ResultGetMessage(result) # NullMsg
                   THEN WasmEdge_ResultGetMessage(result) ELSE "Unknown error"]>>

\* mutant: the record goes to std::cout
printWasmEdgeError_ToCout(cmd, file, status, result) ==
    <<[kind |-> "failure", stream |-> "cout", command |-> cmd, file |-> file,
       status |-> status, code |-> WasmEdge_ResultGetCode(result),
       message |-> IF WasmEdge_ResultGetMessage(result) # NullMsg
                   THEN WasmEdge_ResultGetMessage(result) ELSE "Unknown error"]>>

printWasmEdgeError(cmd, file, status, result) ==
    LET errorCode == WasmEdge_ResultGetCode(result)
        errorMessage == WasmEdge_ResultGetMessage(result)
    IN  <<[kind |-> "failure", stream |-> "cerr", command |-> cmd, file |-> file,
           status |-> status, code |-> errorCode,
           message |-> IF errorMessage # NullMsg THEN errorMessage
                       ELSE "Unknown error"]>>

\* mutant: nothing is written
printContextError_Silent(cmd, file, contextName) == <<>>

printContextError(cmd, file, contextName) ==
    <<[kind |-> "contextFailure", stream |-> "cerr", command |-> cmd, file |-> file,
       status |-> "FAILED", context |-> contextName]>>

printSuccess(cmd, file, status) ==
    <<[kind |-> "success", stream |-> "cout", command |-> cmd, file |-> file,
       status |-> status]>>

printVerbose(message) ==
    IF g_verbose THEN <<[kind |-> "verbose", stream |-> "cout", text |-> message]>>
    ELSE <<>>

IsCout(x) == x.stream = "cout"
IsCerr(x) == x.stream = "cerr"
RecordKinds == {"success", "failure", "contextFailure"}
IsRecord(x) == x.kind \in RecordKinds

\* the items reach their streams in the order they are written
Write(items) ==
    /\ stdout' = stdout \o SelectSeq(items, IsCout)
    /\ stderr' = stderr \o SelectSeq(items, IsCerr)

\* history entries of the reporter records among items
Emits(items) ==
    LET recs == SelectSeq(items, IsRecord)
    IN  [i \in 1..Len(recs) |-> Emit(recs[i].kind)]

\* ------------------------------------------------------------------------
\* File checks
\* ------------------------------------------------------------------------
\* fs::exists(filepath) && fs::is_regular_file(filepath)
\* mutant: fs::is_regular_file is not asked
fileExists_AnyKind(kind) == kind # "missing"
fileExists(kind) == kind # "missing" /\ kind = "regular"

Suffix(s, n) == SubSeq(s, Len(s) - n + 1, Len(s))

hasWasmExtension(filepath) ==
    /\ Len(Chars(filepath)) >= 5
    /\ Suffix(Chars(filepath), 5) = <<".", "w", "a", "s", "m">>

\* the items validateFile writes to std::cerr
validateFileOutput(filepath, kind) ==
    IF ~fileExists(kind) THEN <<[kind |-> "fileNotFound", stream |-> "cerr", file |-> filepath]>>
    ELSE IF ~hasWasmExtension(filepath)
         THEN <<[kind |-> "warning", stream |-> "cerr", file |-> filepath]>>
         ELSE <<>>

\* mutant: the outcome of the existence check is ignored
validateFile_Unchecked(filepath, kind) == TRUE
validateFile(filepath, kind) == fileExists(kind)

\* ------------------------------------------------------------------------
\* Initial state
\* ------------------------------------------------------------------------
Init ==
    /\ pc = "main"
    /\ argv \in Argvs
    /\ argIndex = 1
    /\ g_verbose = FALSE
    /\ command = ""
    /\ filename = ""
    /\ fsKind = "unchecked"
    /\ parserCtx = Null
    /\ astModuleCtx = Null
    /\ validatorCtx = Null
    /\ vmCtx = Null
    /\ locals = <<>>
    /\ stdout = <<>>
    /\ stderr = <<>>
    /\ ret = <<>>
    /\ entered = ""
    /\ lastResult = OkResult   \* not assigned yet, and not read before it is
    /\ log = <<>>

argc == Len(argv) + 1

engineVars == <<parserCtx, astModuleCtx, validatorCtx, vmCtx, locals, log, entered,
               lastResult>>
mainVars == <<argIndex, g_verbose, command, filename, fsKind>>

\* ------------------------------------------------------------------------
\* main
\* ------------------------------------------------------------------------
\* if (argc < 2): no command
MainNoArgs ==
    /\ pc = "main"
    /\ argc < 2
    /\ Write(printCliError("No command specified.") \o printUsage)
    /\ ret' = <<EXIT_CLI_ERROR>>
    /\ pc' = "done"
    /\ UNCHANGED <<argv, mainVars, engineVars>>

\* otherwise enter the option loop
MainBegin ==
    /\ pc = "main"
    /\ argc >= 2
    /\ pc' = "options"
    /\ UNCHANGED <<argv, mainVars, engineVars, stdout, stderr, ret>>

\* one iteration of the option loop on -h / --help
MainHelp ==
    /\ pc = "options"
    /\ argIndex < argc
    /\ argv[argIndex] \in {"-h", "--help"}
    /\ Write(printUsage)
    /\ ret' = <<EXIT_OK>>
    /\ pc' = "done"
    /\ UNCHANGED <<argv, mainVars, engineVars>>

\* ... on -v / --version
MainVersion ==
    /\ pc = "options"
    /\ argIndex < argc
    /\ argv[argIndex] \in {"-v", "--version"}
    /\ Write(printVersion)
    /\ ret' = <<EXIT_OK>>
    /\ pc' = "done"
    /\ UNCHANGED <<argv, mainVars, engineVars>>

\* ... on --verbose
MainVerbose ==
    /\ pc = "options"
    /\ argIndex < argc
    /\ argv[argIndex] = "--verbose"
    /\ g_verbose' = TRUE
    /\ argIndex' = argIndex + 1
    /\ UNCHANGED <<pc, argv, command, filename, fsKind, engineVars, stdout, stderr, ret>>

\* the loop ends: arguments exhausted, or the argument is not an option
MainOptionsEnd ==
    /\ pc = "options"
    /\ IF argIndex < argc
       THEN argv[argIndex] \notin {"-h", "--help", "-v", "--version", "--verbose"}
       ELSE TRUE
    /\ pc' = "command"
    /\ UNCHANGED <<argv, mainVars, engineVars, stdout, stderr, ret>>

\* if (argIndex >= argc): no command
MainNoCommand ==
    /\ pc = "command"
    /\ argIndex >= argc
    /\ Write(printCliError("No command specified.") \o printUsage)
    /\ ret' = <<EXIT_CLI_ERROR>>
    /\ pc' = "done"
    /\ UNCHANGED <<argv, mainVars, engineVars>>

KnownCommands == {"parse", "validate", "instantiate"}

\* command = argv[argIndex++]; unknown command
MainUnknownCommand ==
    /\ pc = "command"
    /\ argIndex < argc
    /\ argv[argIndex] \notin KnownCommands
    /\ command' = argv[argIndex]
    /\ argIndex' = argIndex + 1
    /\ Write(printCliError("Unknown command") \o printUsage)
    /\ ret' = <<EXIT_CLI_ERROR>>
    /\ pc' = "done"
    /\ UNCHANGED <<argv, g_verbose, filename, fsKind, engineVars>>

\* known command, but no file argument
MainMissingFile ==
    /\ pc = "command"
    /\ argIndex < argc
    /\ argv[argIndex] \in KnownCommands
    /\ argIndex + 1 >= argc
    /\ command' = argv[argIndex]
    /\ argIndex' = argIndex + 1
    /\ Write(printCliError("Missing file argument") \o printUsage)
    /\ ret' = <<EXIT_CLI_ERROR>>
    /\ pc' = "done"
    /\ UNCHANGED <<argv, g_verbose, filename, fsKind, engineVars>>

\* known command and file argument: filename = argv[argIndex]; validateFile
MainValidateFile ==
    /\ pc = "command"
    /\ argIndex < argc
    /\ argv[argIndex] \in KnownCommands
    /\ argIndex + 1 < argc
    /\ command' = argv[argIndex]
    /\ argIndex' = argIndex + 1
    /\ filename' = argv[argIndex + 1]
    /\ \E kind \in {"missing", "directory", "regular"} :
          /\ fsKind' = kind
          /\ IF ~validateFile(filename', kind)
             THEN /\ Write(validateFileOutput(filename', kind))
                  /\ ret' = <<EXIT_CLI_ERROR>>
                  /\ pc' = "done"
             ELSE /\ Write(validateFileOutput(filename', kind)
                           \o printVerbose("File validation passed."))
                  /\ ret' = ret
                  /\ pc' = "route"
    /\ UNCHANGED <<argv, g_verbose, engineVars>>

\* mutant: validate is routed to the parse entry point
Route_Misrouted(cmd) ==
    IF cmd = "parse" THEN "cmdParse"
    ELSE IF cmd = "validate" THEN "cmdParse"
    ELSE IF cmd = "instantiate" THEN "cmdInstantiate"
    ELSE "fallthrough"

\* the entry point main routes the command to
Route(cmd) ==
    IF cmd = "parse" THEN "cmdParse"
    ELSE IF cmd = "validate" THEN "cmdValidate"
    ELSE IF cmd = "instantiate" THEN "cmdInstantiate"
    ELSE "fallthrough"

MainRoute ==
    /\ pc = "route"
    /\ IF Route(command) = "fallthrough"
       THEN /\ ret' = <<EXIT_CLI_ERROR>>
            /\ pc' = "done"
            /\ entered' = entered
       ELSE /\ ret' = ret
            /\ pc' = Route(command)
            /\ entered' = Route(command)
    /\ UNCHANGED <<argv, mainVars, parserCtx, astModuleCtx, validatorCtx, vmCtx,
                   locals, log, stdout, stderr, lastResult>>

\* ------------------------------------------------------------------------
\* Pipeline entry points.  A return statement sets ret and hands control to
\* the destructors of the RAII objects constructed so far (pc = "unwind").
\* ------------------------------------------------------------------------
otherVars == <<argv, mainVars, entered, lastResult>>

VerboseHeader ==
    printVerbose("WasmEdge version") \o printVerbose("Processing file")

\* what WasmEdge_ParserParseFromFile may leave in *Module: a module when it
\* succeeds, nothing or a partial module when it fails
ParsedModules(result) ==
    IF WasmEdge_ResultOK(result) THEN {Live} ELSE {Null, Live}

\* the tests the entry points make on a result: if (!WasmEdge_ResultOK(result))
\* mutant: the result is not tested
cmdParse_ParseFailed_Ignored(result) == FALSE
cmdParse_ParseFailed(result) == ~WasmEdge_ResultOK(result)
\* mutant: the result is not tested
cmdValidate_ParseFailed_Ignored(result) == FALSE
cmdValidate_ParseFailed(result) == ~WasmEdge_ResultOK(result)
cmdValidate_ValidateFailed(result) == ~WasmEdge_ResultOK(result)
\* mutant: the result is not tested
cmdInstantiate_LoadFailed_Ignored(result) == FALSE
cmdInstantiate_LoadFailed(result) == ~WasmEdge_ResultOK(result)
\* mutant: the result is not tested
cmdInstantiate_ValidateFailed_Ignored(result) == FALSE
cmdInstantiate_ValidateFailed(result) == ~WasmEdge_ResultOK(result)
\* mutant: the result is not tested
cmdInstantiate_InstantiateFailed_Ignored(result) == FALSE
cmdInstantiate_InstantiateFailed(result) == ~WasmEdge_ResultOK(result)

\* ---- cmdParse ----------------------------------------------------------
\* Step 1: create the parser context
cmdParse_CreateParser ==
    /\ pc = "cmdParse"
    /\ \E ctx \in {Live, Null} :
          LET call == Call("WasmEdge_ParserCreate", ctx # Null, {}, ctx)
              items == VerboseHeader \o printVerbose("Creating parser context...")
                       \o (IF ctx = Null
                           THEN printContextError("PARSE", filename, "parser context")
                           ELSE <<>>)
          IN  /\ parserCtx' = ctx
              /\ locals' = Append(locals, "parserCtx")
              /\ Write(items)
              /\ log' = log \o <<call>> \o Emits(items)
              /\ ret' = IF ctx = Null THEN <<EXIT_RUNTIME_ERROR>> ELSE ret
              /\ pc' = IF ctx = Null THEN "unwind" ELSE "cmdParse_parse"
    /\ UNCHANGED <<otherVars, astModuleCtx, validatorCtx, vmCtx>>

\* Step 2: parse the file, take ownership of the module handle, report
cmdParse_Parse ==
    /\ pc = "cmdParse_parse"
    /\ \E result \in Results :
       \E rawAstModule \in ParsedModules(result) :
          LET call == Call("WasmEdge_ParserParseFromFile", WasmEdge_ResultOK(result),
                           {parserCtx}, rawAstModule)
              items == printVerbose("Parsing WebAssembly module...")
                       \o (IF cmdParse_ParseFailed(result)
                           THEN printWasmEdgeError("PARSE", filename, "FAILED", result)
                           ELSE printVerbose("Parse completed successfully.")
                                \o printSuccess("PARSE", filename, "SUCCESS"))
          IN  /\ astModuleCtx' = rawAstModule
              /\ locals' = Append(locals, "astModuleCtx")
              /\ Write(items)
              /\ lastResult' = result
              /\ log' = log \o <<call>> \o Emits(items)
              /\ ret' = IF cmdParse_ParseFailed(result)
                        THEN <<EXIT_RUNTIME_ERROR>> ELSE <<EXIT_OK>>
              /\ pc' = "unwind"
    /\ UNCHANGED <<argv, mainVars, entered, parserCtx, validatorCtx, vmCtx>>

\* ---- cmdValidate -------------------------------------------------------
\* Step 1: create the parser context
cmdValidate_CreateParser ==
    /\ pc = "cmdValidate"
    /\ \E ctx \in {Live, Null} :
          LET call == Call("WasmEdge_ParserCreate", ctx # Null, {}, ctx)
              items == VerboseHeader \o printVerbose("Creating parser context...")
                       \o (IF ctx = Null
                           THEN printContextError("VALIDATE", filename, "parser context")
                           ELSE <<>>)
          IN  /\ parserCtx' = ctx
              /\ locals' = Append(locals, "parserCtx")
              /\ Write(items)
              /\ log' = log \o <<call>> \o Emits(items)
              /\ ret' = IF ctx = Null THEN <<EXIT_RUNTIME_ERROR>> ELSE ret
              /\ pc' = IF ctx = Null THEN "unwind" ELSE "cmdValidate_parse"
    /\ UNCHANGED <<otherVars, astModuleCtx, validatorCtx, vmCtx>>

\* Step 2: parse the file, take ownership of the module handle
cmdValidate_Parse ==
    /\ pc = "cmdValidate_parse"
    /\ \E result \in Results :
       \E rawAstModule \in ParsedModules(result) :
          LET call == Call("WasmEdge_ParserParseFromFile", WasmEdge_ResultOK(result),
                           {parserCtx}, rawAstModule)
              items == printVerbose("Parsing WebAssembly module...")
                       \o (IF cmdValidate_ParseFailed(result)
                           THEN printWasmEdgeError("VALIDATE", filename,
                                                   "FAILED (Parse Error)", result)
                           ELSE <<>>)
          IN  /\ astModuleCtx' = rawAstModule
              /\ locals' = Append(locals, "astModuleCtx")
              /\ Write(items)
              /\ lastResult' = result
              /\ log' = log \o <<call>> \o Emits(items)
              /\ ret' = IF cmdValidate_ParseFailed(result)
                        THEN <<EXIT_RUNTIME_ERROR>> ELSE ret
              /\ pc' = IF cmdValidate_ParseFailed(result)
                       THEN "unwind" ELSE "cmdValidate_createValidator"
    /\ UNCHANGED <<argv, mainVars, entered, parserCtx, validatorCtx, vmCtx>>

\* Step 3: create the validator context
cmdValidate_CreateValidator ==
    /\ pc = "cmdValidate_createValidator"
    /\ \E ctx \in {Live, Null} :
          LET call == Call("WasmEdge_ValidatorCreate", ctx # Null, {}, ctx)
              items == printVerbose("Creating validator context...")
                       \o (IF ctx = Null
                           THEN printContextError("VALIDATE", filename, "validator context")
                           ELSE <<>>)
          IN  /\ validatorCtx' = ctx
              /\ locals' = Append(locals, "validatorCtx")
              /\ Write(items)
              /\ log' = log \o <<call>> \o Emits(items)
              /\ ret' = IF ctx = Null THEN <<EXIT_RUNTIME_ERROR>> ELSE ret
              /\ pc' = IF ctx = Null THEN "unwind" ELSE "cmdValidate_validate"
    /\ UNCHANGED <<otherVars, parserCtx, astModuleCtx, vmCtx>>

\* Step 4: validate the module, report
cmdValidate_Validate ==
    /\ pc = "cmdValidate_validate"
    /\ \E result \in Results :
          LET call == Call("WasmEdge_ValidatorValidate", WasmEdge_ResultOK(result),
                           {validatorCtx, astModuleCtx}, "")
              items == printVerbose("Validating WebAssembly module...")
                       \o (IF cmdValidate_ValidateFailed(result)
                           THEN printWasmEdgeError("VALIDATE", filename, "INVALID", result)
                           ELSE printVerbose("Validation completed successfully.")
                                \o printSuccess("VALIDATE", filename, "VALID"))
          IN  /\ Write(items)
              /\ lastResult' = result
              /\ log' = log \o <<call>> \o Emits(items)
              /\ ret' = IF cmdValidate_ValidateFailed(result)
                        THEN <<EXIT_RUNTIME_ERROR>> ELSE <<EXIT_OK>>
              /\ pc' = "unwind"
    /\ UNCHANGED <<argv, mainVars, entered, parserCtx, astModuleCtx, validatorCtx, vmCtx, locals>>

\* ---- cmdInstantiate ----------------------------------------------------
\* Step 1: create the VM context
cmdInstantiate_CreateVM ==
    /\ pc = "cmdInstantiate"
    /\ \E ctx \in {Live, Null} :
          LET call == Call("WasmEdge_VMCreate", ctx # Null, {}, ctx)
              items == VerboseHeader \o printVerbose("Creating VM context...")
                       \o (IF ctx = Null
                           THEN printContextError("INSTANTIATE", filename, "VM context")
                           ELSE <<>>)
          IN  /\ vmCtx' = ctx
              /\ locals' = Append(locals, "vmCtx")
              /\ Write(items)
              /\ log' = log \o <<call>> \o Emits(items)
              /\ ret' = IF ctx = Null THEN <<EXIT_RUNTIME_ERROR>> ELSE ret
              /\ pc' = IF ctx = Null THEN "unwind" ELSE "cmdInstantiate_load"
    /\ UNCHANGED <<otherVars, parserCtx, astModuleCtx, validatorCtx>>

\* Step 2: load the module from the file
cmdInstantiate_Load ==
    /\ pc = "cmdInstantiate_load"
    /\ \E result \in Results :
          LET call == Call("WasmEdge_VMLoadWasmFromFile", WasmEdge_ResultOK(result),
                           {vmCtx}, "")
              items == printVerbose("Loading WebAssembly module...")
                       \o (IF cmdInstantiate_LoadFailed(result)
                           THEN printWasmEdgeError("INSTANTIATE", filename,
                                                   "FAILED (Load Error)", result)
                           ELSE <<>>)
          IN  /\ Write(items)
              /\ lastResult' = result
              /\ log' = log \o <<call>> \o Emits(items)
              /\ ret' = IF cmdInstantiate_LoadFailed(result)
                        THEN <<EXIT_RUNTIME_ERROR>> ELSE ret
              /\ pc' = IF cmdInstantiate_LoadFailed(result)
                       THEN "unwind" ELSE "cmdInstantiate_validate"
    /\ UNCHANGED <<argv, mainVars, entered, parserCtx, astModuleCtx, validatorCtx, vmCtx, locals>>

\* Step 3: validate the loaded module
cmdInstantiate_Validate ==
    /\ pc = "cmdInstantiate_validate"
    /\ \E result \in Results :
          LET call == Call("WasmEdge_VMValidate", WasmEdge_ResultOK(result), {vmCtx}, "")
              items == printVerbose("Validating loaded module...")
                       \o (IF cmdInstantiate_ValidateFailed(result)
                           THEN printWasmEdgeError("INSTANTIATE", filename,
                                                   "FAILED (Validation Error)", result)
                           ELSE <<>>)
          IN  /\ Write(items)
              /\ lastResult' = result
              /\ log' = log \o <<call>> \o Emits(items)
              /\ ret' = IF cmdInstantiate_ValidateFailed(result)
                        THEN <<EXIT_RUNTIME_ERROR>> ELSE ret
              /\ pc' = IF cmdInstantiate_ValidateFailed(result)
                       THEN "unwind" ELSE "cmdInstantiate_instantiate"
    /\ UNCHANGED <<argv, mainVars, entered, parserCtx, astModuleCtx, validatorCtx, vmCtx, locals>>

\* Step 4: instantiate the module, report
cmdInstantiate_Instantiate ==
    /\ pc = "cmdInstantiate_instantiate"
    /\ \E result \in Results :
          LET call == Call("WasmEdge_VMInstantiate", WasmEdge_ResultOK(result), {vmCtx}, "")
              items == printVerbose("Instantiating module...")
                       \o (IF cmdInstantiate_InstantiateFailed(result)
                           THEN printWasmEdgeError("INSTANTIATE", filename,
                                                   "FAILED (Instantiation Error)", result)
                           ELSE printVerbose("Instantiation completed successfully.")
                                \o printSuccess("INSTANTIATE", filename, "READY"))
          IN  /\ Write(items)
              /\ lastResult' = result
              /\ log' = log \o <<call>> \o Emits(items)
              /\ ret' = IF cmdInstantiate_InstantiateFailed(result)
                        THEN <<EXIT_RUNTIME_ERROR>> ELSE <<EXIT_OK>>
              /\ pc' = "unwind"
    /\ UNCHANGED <<argv, mainVars, entered, parserCtx, astModuleCtx, validatorCtx, vmCtx, locals>>

\* ---- scope exit: RAII objects are destroyed in reverse construction order
\* mutant: the object constructed first is destroyed first
Top_First(s) == s[1]
Top(s) == s[Len(s)]
Pop(s) == SubSeq(s, 1, Len(s) - 1)

\* the engine's delete function applied to a handle in state ctx
DeleteCall(op, ctx) == Call(op, TRUE, {ctx}, "")

DestroyParserPtr ==
    /\ pc = "unwind"
    /\ locals # <<>>
    /\ Top(locals) = "parserCtx"
    /\ locals' = Pop(locals)
    /\ IF ParserDeleter(parserCtx)
       THEN /\ log' = Append(log, DeleteCall("WasmEdge_ParserDelete", parserCtx))
            /\ parserCtx' = Freed
       ELSE UNCHANGED <<log, parserCtx>>
    /\ UNCHANGED <<pc, otherVars, astModuleCtx, validatorCtx, vmCtx, stdout, stderr, ret>>

DestroyASTModulePtr ==
    /\ pc = "unwind"
    /\ locals # <<>>
    /\ Top(locals) = "astModuleCtx"
    /\ locals' = Pop(locals)
    /\ IF ASTModuleDeleter(astModuleCtx)
       THEN /\ log' = Append(log, DeleteCall("WasmEdge_ASTModuleDelete", astModuleCtx))
            /\ astModuleCtx' = Freed
       ELSE UNCHANGED <<log, astModuleCtx>>
    /\ UNCHANGED <<pc, otherVars, parserCtx, validatorCtx, vmCtx, stdout, stderr, ret>>

DestroyValidatorPtr ==
    /\ pc = "unwind"
    /\ locals # <<>>
    /\ Top(locals) = "validatorCtx"
    /\ locals' = Pop(locals)
    /\ IF ValidatorDeleter(validatorCtx)
       THEN /\ log' = Append(log, DeleteCall("WasmEdge_ValidatorDelete", validatorCtx))
            /\ validatorCtx' = Freed
       ELSE UNCHANGED <<log, validatorCtx>>
    /\ UNCHANGED <<pc, otherVars, parserCtx, astModuleCtx, vmCtx, stdout, stderr, ret>>

DestroyVMPtr ==
    /\ pc = "unwind"
    /\ locals # <<>>
    /\ Top(locals) = "vmCtx"
    /\ locals' = Pop(locals)
    /\ IF VMDeleter(vmCtx)
       THEN /\ log' = Append(log, DeleteCall("WasmEdge_VMDelete", vmCtx))
            /\ vmCtx' = Freed
       ELSE UNCHANGED <<log, vmCtx>>
    /\ UNCHANGED <<pc, otherVars, parserCtx, astModuleCtx, validatorCtx, stdout, stderr, ret>>

\* all RAII objects are gone: the entry point's value becomes main's
Return ==
    /\ pc = "unwind"
    /\ locals = <<>>
    /\ pc' = "done"
    /\ UNCHANGED <<otherVars, parserCtx, astModuleCtx, validatorCtx, vmCtx, locals,
                   log, stdout, stderr, ret>>

Next ==
    \/ MainNoArgs
    \/ MainBegin
    \/ MainHelp
    \/ MainVersion
    \/ MainVerbose
    \/ MainOptionsEnd
    \/ MainNoCommand
    \/ MainUnknownCommand
    \/ MainMissingFile
    \/ MainValidateFile
    \/ MainRoute
    \/ cmdParse_CreateParser
    \/ cmdParse_Parse
    \/ cmdValidate_CreateParser
    \/ cmdValidate_Parse
    \/ cmdValidate_CreateValidator
    \/ cmdValidate_Validate
    \/ cmdInstantiate_CreateVM
    \/ cmdInstantiate_Load
    \/ cmdInstantiate_Validate
    \/ cmdInstantiate_Instantiate
    \/ DestroyParserPtr
    \/ DestroyASTModulePtr
    \/ DestroyValidatorPtr
    \/ DestroyVMPtr
    \/ Return

Spec == Init /\ [][Next]_vars

\* ------------------------------------------------------------------------
\* Observations on a run
\* ------------------------------------------------------------------------
\* a pipeline entry point was entered and has returned to main
Returned == pc = "done" /\ entered # ""

\* the entry point has executed its return statement (destructors may still run)
Reported == pc \in {"unwind", "done"} /\ entered # ""

EngineCalls == {i \in DOMAIN log : log[i].op \in CreateOps \cup OperateOps}
AllCallsOk == \A i \in EngineCalls : log[i].ok
Failed(op) == \E i \in DOMAIN log : log[i].op = op /\ ~log[i].ok
Succeeded(op) == \E i \in DOMAIN log : log[i].op = op /\ log[i].ok

\* handles of a kind handed out by op, and handles given back through op
AcquiredBy(op) == Cardinality({i \in DOMAIN log : log[i].op = op /\ log[i].out = Live})
ReleasedBy(op) == Cardinality({i \in DOMAIN log : log[i].op = op /\ log[i].on # {Null}})

\* <<acquiring call, releasing call>> of the four handle kinds
HandleKinds == {<<"WasmEdge_ParserCreate", "WasmEdge_ParserDelete">>,
                <<"WasmEdge_ParserParseFromFile", "WasmEdge_ASTModuleDelete">>,
                <<"WasmEdge_ValidatorCreate", "WasmEdge_ValidatorDelete">>,
                <<"WasmEdge_VMCreate", "WasmEdge_VMDelete">>}

Records(s) == SelectSeq(s, IsRecord)
AllRecords == Records(stdout) \o Records(stderr)
StatusesReported == {AllRecords[i].status : i \in DOMAIN AllRecords}
SuccessTokens == {"SUCCESS", "VALID", "READY"}

\* ------------------------------------------------------------------------
\* Claims
\* ------------------------------------------------------------------------

\* C1: when cmdParse, cmdValidate or cmdInstantiate has returned, for each
\* handle kind (parser, parsed module, validator, VM) the number of handles
\* acquired equals the number of handles released, whatever the engine answered.
NoLeak ==
    Returned => \A k \in HandleKinds : AcquiredBy(k[1]) = ReleasedBy(k[2])

\* a validate run whose parse call failed and left a partial module behind
NoLeak_Witness ==
    /\ Returned
    /\ entered = "cmdValidate"
    /\ Failed("WasmEdge_ParserParseFromFile")
    /\ AcquiredBy("WasmEdge_ParserParseFromFile") = 1
    /\ AcquiredBy("WasmEdge_ParserCreate") = 1

\* C2: no handle is released twice, no engine operation is invoked on a
\* released handle, and no release function is called on a null handle.
SafeHandleUse ==
    /\ \A i \in DOMAIN log :
          /\ log[i].op \in DeleteOps => log[i].on = {Live}
          /\ log[i].op \in OperateOps => Freed \notin log[i].on
    /\ \A op \in DeleteOps : Cardinality({i \in DOMAIN log : log[i].op = op}) <= 1

\* a parse run whose parse call failed and left no module: the parser is
\* released, the null module handle is not
SafeHandleUse_Witness ==
    /\ Returned
    /\ entered = "cmdParse"
    /\ parserCtx = Freed
    /\ astModuleCtx = Null
    /\ Failed("WasmEdge_ParserParseFromFile")

\* C3: a later step is never attempted after an earlier one failed: every
\* step is preceded by the successful steps it depends on, by no failed one,
\* and no operation is invoked on a null handle.
PrecededByOk(i, op) == \E j \in 1..(i - 1) : log[j].op = op /\ log[j].ok
NoFailureBefore(i) == \A j \in 1..(i - 1) : j \in EngineCalls => log[j].ok
Requires(op) ==
    CASE op = "WasmEdge_ParserParseFromFile" -> {"WasmEdge_ParserCreate"}
      [] op = "WasmEdge_ValidatorCreate" ->
            {"WasmEdge_ParserCreate", "WasmEdge_ParserParseFromFile"}
      [] op = "WasmEdge_ValidatorValidate" ->
            {"WasmEdge_ParserCreate", "WasmEdge_ParserParseFromFile",
             "WasmEdge_ValidatorCreate"}
      [] op = "WasmEdge_VMLoadWasmFromFile" -> {"WasmEdge_VMCreate"}
      [] op = "WasmEdge_VMValidate" ->
            {"WasmEdge_VMCreate", "WasmEdge_VMLoadWasmFromFile"}
      [] op = "WasmEdge_VMInstantiate" ->
            {"WasmEdge_VMCreate", "WasmEdge_VMLoadWasmFromFile", "WasmEdge_VMValidate"}
      [] OTHER -> {}

StagesStopAtFailure ==
    \A i \in EngineCalls :
        /\ \A op \in Requires(log[i].op) : PrecededByOk(i, op)
        /\ NoFailureBefore(i)
        /\ Null \notin log[i].on

\* a validate run whose parse call failed: no validator was created
StagesStopAtFailure_Witness ==
    /\ Returned
    /\ entered = "cmdValidate"
    /\ Failed("WasmEdge_ParserParseFromFile")
    /\ validatorCtx = Null
    /\ ~\E i \in DOMAIN log : log[i].op = "WasmEdge_ValidatorCreate"

\* C4: a pipeline run returns 0 iff every engine acquisition and operation it
\* performed succeeded and 2 otherwise; an entry point never returns 1, and
\* main returns 1 only without having entered an entry point.
ExitCodes ==
    /\ Returned => /\ ret \in {<<EXIT_OK>>, <<EXIT_RUNTIME_ERROR>>}
                   /\ ret = <<EXIT_OK>> <=> AllCallsOk
                   /\ ~AllCallsOk => ret = <<EXIT_RUNTIME_ERROR>>
    /\ entered # "" => ret # <<EXIT_CLI_ERROR>>
    /\ (pc = "done" /\ ret = <<EXIT_CLI_ERROR>>) => entered = ""

\* an instantiate run whose VM creation failed
ExitCodes_Witness ==
    /\ Returned
    /\ entered = "cmdInstantiate"
    /\ Failed("WasmEdge_VMCreate")
    /\ ret = <<EXIT_RUNTIME_ERROR>>

\* C5: when every engine call succeeds the command returns 0 and reports its
\* success token (SUCCESS, VALID, READY); no success token is reported on a
\* run in which an engine call failed.
SuccessToken(entry) ==
    CASE entry = "cmdParse" -> "SUCCESS"
      [] entry = "cmdValidate" -> "VALID"
      [] entry = "cmdInstantiate" -> "READY"

SuccessReporting ==
    Returned =>
        /\ AllCallsOk => /\ ret = <<EXIT_OK>>
                         /\ StatusesReported = {SuccessToken(entered)}
                         /\ \A i \in DOMAIN AllRecords : AllRecords[i].kind = "success"
        /\ ~AllCallsOk => /\ StatusesReported \cap SuccessTokens = {}
                          /\ \A i \in DOMAIN AllRecords : AllRecords[i].kind # "success"

\* an instantiate run in which create, load, validate and instantiate succeed
SuccessReporting_Witness ==
    /\ Returned
    /\ entered = "cmdInstantiate"
    /\ Succeeded("WasmEdge_VMInstantiate")
    /\ ret = <<EXIT_OK>>

\* C6: when the parse call fails, validate reports "FAILED (Parse Error)"
\* (never "INVALID"); when the load call fails, instantiate reports
\* "FAILED (Load Error)"; both return 2.
ParseFailureReporting ==
    /\ (Returned /\ entered = "cmdValidate" /\ Failed("WasmEdge_ParserParseFromFile"))
          => /\ StatusesReported = {"FAILED (Parse Error)"}
             /\ ret = <<EXIT_RUNTIME_ERROR>>
    /\ (Returned /\ entered = "cmdInstantiate" /\ Failed("WasmEdge_VMLoadWasmFromFile"))
          => /\ StatusesReported = {"FAILED (Load Error)"}
             /\ ret = <<EXIT_RUNTIME_ERROR>>

\* an instantiate run whose load call failed
ParseFailureReporting_Witness ==
    /\ Returned
    /\ entered = "cmdInstantiate"
    /\ Failed("WasmEdge_VMLoadWasmFromFile")
    /\ "FAILED (Load Error)" \in StatusesReported

\* C7: when parsing/loading succeeds and validation fails, validate reports
\* "INVALID" (never "FAILED" or "FAILED (Parse Error)") and instantiate
\* reports "FAILED (Validation Error)"; both return 2.
ValidationFailureReporting ==
    /\ (Returned /\ entered = "cmdValidate" /\ Succeeded("WasmEdge_ParserParseFromFile")
          /\ Failed("WasmEdge_ValidatorValidate"))
          => /\ StatusesReported = {"INVALID"}
             /\ ret = <<EXIT_RUNTIME_ERROR>>
    /\ (Returned /\ entered = "cmdInstantiate" /\ Succeeded("WasmEdge_VMLoadWasmFromFile")
          /\ Failed("WasmEdge_VMValidate"))
          => /\ StatusesReported = {"FAILED (Validation Error)"}
             /\ ret = <<EXIT_RUNTIME_ERROR>>

\* a validate run whose parse call succeeded and whose validate call failed
ValidationFailureReporting_Witness ==
    /\ Returned
    /\ entered = "cmdValidate"
    /\ Succeeded("WasmEdge_ParserParseFromFile")
    /\ Failed("WasmEdge_ValidatorValidate")
    /\ "INVALID" \in StatusesReported

\* C8: in cmdInstantiate the failure token names the VM call that failed:
\* Load Error iff load failed, Validation Error iff load succeeded and
\* validate failed, Instantiation Error iff load and validate succeeded and
\* instantiate failed.
InstantiateTokens ==
    (Returned /\ entered = "cmdInstantiate") =>
        /\ "FAILED (Load Error)" \in StatusesReported
              <=> Failed("WasmEdge_VMLoadWasmFromFile")
        /\ "FAILED (Validation Error)" \in StatusesReported
              <=> (Succeeded("WasmEdge_VMLoadWasmFromFile") /\ Failed("WasmEdge_VMValidate"))
        /\ "FAILED (Instantiation Error)" \in StatusesReported
              <=> (/\ Succeeded("WasmEdge_VMLoadWasmFromFile")
                   /\ Succeeded("WasmEdge_VMValidate")
                   /\ Failed("WasmEdge_VMInstantiate"))
        /\ Cardinality(StatusesReported) = 1

\* an instantiate run whose instantiate call failed
InstantiateTokens_Witness ==
    /\ Returned
    /\ entered = "cmdInstantiate"
    /\ Failed("WasmEdge_VMInstantiate")
    /\ "FAILED (Instantiation Error)" \in StatusesReported

\* C9: an entry point has emitted exactly one Reporter record when it
\* returns: one failure record and no success record when an engine call
\* failed, one success record and no failure record otherwise; until it
\* returns it has emitted none.
FailureKinds == {"failure", "contextFailure"}

ExactlyOneRecord ==
    /\ Reported => /\ Len(AllRecords) = 1
                   /\ AllCallsOk => AllRecords[1].kind = "success"
                   /\ ~AllCallsOk => AllRecords[1].kind \in FailureKinds
    /\ ~Reported => AllRecords = <<>>

\* a validate run whose validator could not be created
ExactlyOneRecord_Witness ==
    /\ Returned
    /\ entered = "cmdValidate"
    /\ Failed("WasmEdge_ValidatorCreate")
    /\ Len(AllRecords) = 1

\* C10 as stated: a run that returns 0 writes its record to stdout and nothing
\* to stderr, and a run that returns 2 writes its record to stderr and nothing
\* to stdout, for every setting of the verbose flag.
OneStreamOnly ==
    Returned =>
        /\ ret = <<EXIT_OK>> => (Len(Records(stdout)) = 1 /\ stderr = <<>>)
        /\ ret = <<EXIT_RUNTIME_ERROR>> => (Len(Records(stderr)) = 1 /\ stdout = <<>>)

\* C10 as amended: a run that returns 0 writes its record to stdout and no
\* record to stderr, and a run that returns 2 writes its record to stderr and
\* no record to stdout, for every setting of the verbose flag; stdout of a
\* failing run is empty unless the verbose flag is set, and stderr of a
\* successful run is empty unless the path lacks the .wasm suffix.
RecordStream ==
    Returned =>
        /\ ret = <<EXIT_OK>> => /\ Len(Records(stdout)) = 1
                                /\ Records(stderr) = <<>>
                                /\ hasWasmExtension(filename) => stderr = <<>>
        /\ ret = <<EXIT_RUNTIME_ERROR>> => /\ Len(Records(stderr)) = 1
                                           /\ Records(stdout) = <<>>
                                           /\ ~g_verbose => stdout = <<>>

\* a failing run under --verbose: the record is on stderr, diagnostics on stdout
RecordStream_Witness ==
    /\ Returned
    /\ ret = <<EXIT_RUNTIME_ERROR>>
    /\ g_verbose
    /\ stdout # <<>>
    /\ Len(Records(stderr)) = 1

\* C11 as stated: when the parse step of validate fails, the failure record
\* names Parse as the stage reported, carries status "FAILED (Parse Error)" and
\* the error code and message the parse command reports for the same failure.
RenderedMessage(res) ==
    IF WasmEdge_ResultGetMessage(res) = NullMsg THEN "Unknown error"
    ELSE WasmEdge_ResultGetMessage(res)

\* the one record of the run is a failure record on stderr with this stage
\* name and status, and the code and message of the failed call
ReportedFailure(stage, status) ==
    AllRecords = <<[kind |-> "failure", stream |-> "cerr", command |-> stage,
                    file |-> filename, status |-> status,
                    code |-> WasmEdge_ResultGetCode(lastResult),
                    message |-> RenderedMessage(lastResult)]>>

ParseFailed(entry) ==
    Returned /\ entered = entry /\ Failed("WasmEdge_ParserParseFromFile")

ParseFailureStageIsParse ==
    /\ ParseFailed("cmdValidate") => ReportedFailure("PARSE", "FAILED (Parse Error)")
    /\ ParseFailed("cmdParse") => ReportedFailure("PARSE", "FAILED")

\* C11 as amended: when the parse step of validate fails, validate stops and
\* its failure record names VALIDATE as the stage, carries status
\* "FAILED (Parse Error)" (only the qualifier names the parse step) and the
\* error code and message the parse command reports for the same failure.
ParseFailureSurfaced ==
    /\ ParseFailed("cmdValidate") =>
          /\ ReportedFailure("VALIDATE", "FAILED (Parse Error)")
          /\ ~\E i \in DOMAIN log : log[i].op \in {"WasmEdge_ValidatorCreate",
                                                   "WasmEdge_ValidatorValidate"}
    /\ ParseFailed("cmdParse") => ReportedFailure("PARSE", "FAILED")

\* a validate run whose parse call failed with an engine message
ParseFailureSurfaced_Witness ==
    /\ ParseFailed("cmdValidate")
    /\ WasmEdge_ResultGetMessage(lastResult) = "unexpected end"
    /\ Len(AllRecords) = 1
    /\ AllRecords[1].command = "VALIDATE"

\* C12 as stated: for every known verb and every supplied path, also one that
\* does not name an existing regular file, main enters the verb's entry point
\* and the outcome is decided by the engine calls' results.
EntryOf(verb) ==
    CASE verb = "parse" -> "cmdParse"
      [] verb = "validate" -> "cmdValidate"
      [] verb = "instantiate" -> "cmdInstantiate"
      [] OTHER -> ""

\* main has finished a run with a known verb and a path argument
VerbAndPathRun == pc = "done" /\ command \in KnownCommands /\ filename # ""

DecidedByEngine ==
    /\ entered = EntryOf(command)
    /\ EngineCalls # {}
    /\ ret = IF AllCallsOk THEN <<EXIT_OK>> ELSE <<EXIT_RUNTIME_ERROR>>

PathCheckedOnlyByEngine == VerbAndPathRun => DecidedByEngine

\* C12 as amended: for every known verb and every supplied path that names an
\* existing regular file, whatever its suffix, main enters the verb's entry
\* point and the outcome is decided by the engine calls' results; a path that
\* does not name an existing regular file is rejected by the local check with
\* exit code 1, before an entry point is entered or the engine is used.
PathCheckedLocallyFirst ==
    VerbAndPathRun =>
        /\ fsKind = "regular" => DecidedByEngine
        /\ fsKind # "regular" => /\ entered = ""
                                 /\ EngineCalls = {}
                                 /\ ret = <<EXIT_CLI_ERROR>>

\* a run on a path that names a directory
PathCheckedLocallyFirst_Witness ==
    /\ VerbAndPathRun
    /\ fsKind = "directory"
    /\ ret = <<EXIT_CLI_ERROR>>
    /\ entered = ""

\* C13: a usage error (no command, unknown verb, missing file argument) ends
\* with exit code 1, with no engine handle acquired and no entry point entered;
\* each known verb is routed to its own entry point.
RECURSIVE SkipVerbose(_)
SkipVerbose(s) ==
    IF s # <<>> /\ Head(s) = "--verbose" THEN SkipVerbose(Tail(s)) ELSE s

\* the arguments from the verb on
VerbArgs == SkipVerbose(argv)
HelpOrVersion == {"-h", "--help", "-v", "--version"}

UsageError ==
    IF VerbArgs = <<>> THEN TRUE
    ELSE IF Head(VerbArgs) \in HelpOrVersion THEN FALSE
    ELSE IF Head(VerbArgs) \notin {"parse", "validate", "instantiate"} THEN TRUE
    ELSE Len(VerbArgs) = 1

NoEngineResourceTouched ==
    /\ log = <<>>
    /\ locals = <<>>
    /\ {parserCtx, astModuleCtx, validatorCtx, vmCtx} = {Null}
    /\ entered = ""

UsageErrorsShortCircuit ==
    /\ UsageError => /\ NoEngineResourceTouched
                     /\ pc = "done" => ret = <<EXIT_CLI_ERROR>>
    /\ entered # "" => /\ ~UsageError
                       /\ entered = EntryOf(Head(VerbArgs))
    /\ pc \in {"cmdParse", "cmdValidate", "cmdInstantiate"} => pc = entered

\* a run with a known verb and no file argument
UsageErrorsShortCircuit_Witness ==
    /\ pc = "done"
    /\ UsageError
    /\ VerbArgs = <<"validate">>
    /\ g_verbose
    /\ ret = <<EXIT_CLI_ERROR>>

\* C14: every failure record of a failed engine operation carries the code
\* the engine returned for that operation, unchanged, and a message that is
\* never empty: "Unknown error" when the engine supplies none, and a non-empty
\* text for every engine message, absent, empty or non-empty.
OperationFailed ==
    /\ Reported
    /\ \E i \in EngineCalls : log[i].op \in OperateOps /\ ~log[i].ok

FailureRecords == SelectSeq(stderr \o stdout, LAMBDA x : x.kind = "failure")

FailureCarriesCodeAndMessage ==
    OperationFailed =>
        /\ Len(FailureRecords) = 1
        /\ FailureRecords[1].code = WasmEdge_ResultGetCode(lastResult)
        /\ WasmEdge_ResultGetMessage(lastResult) = NullMsg
              => FailureRecords[1].message = "Unknown error"
        /\ FailureRecords[1].message # ""

\* C16: no error is retried: each engine acquisition and each engine
\* operation is invoked at most once in an invocation, and the first failure
\* is the last engine call of the invocation.
NoRetry ==
    /\ \A op \in CreateOps \cup OperateOps :
          Cardinality({i \in DOMAIN log : log[i].op = op}) <= 1
    /\ \A i \in EngineCalls : ~log[i].ok => \A j \in EngineCalls : j <= i

\* an instantiate run whose validate call failed: instantiate was not called
NoRetry_Witness ==
    /\ Returned
    /\ entered = "cmdInstantiate"
    /\ Failed("WasmEdge_VMValidate")
    /\ ~\E i \in DOMAIN log : log[i].op = "WasmEdge_VMInstantiate"

\* C17: handles are created in dependency order and released in the exact
\* reverse order of their creation on every exit path (validator, then parsed
\* module, then parser); every release comes after the run's record and after
\* the last engine operation.
ReleaseOf(op) ==
    CASE op = "WasmEdge_ParserCreate" -> "WasmEdge_ParserDelete"
      [] op = "WasmEdge_ParserParseFromFile" -> "WasmEdge_ASTModuleDelete"
      [] op = "WasmEdge_ValidatorCreate" -> "WasmEdge_ValidatorDelete"
      [] op = "WasmEdge_VMCreate" -> "WasmEdge_VMDelete"

IsAcquisition(e) == e.op \in {k[1] : k \in HandleKinds} /\ e.out = Live
IsRelease(e) == e.op \in DeleteOps
Reverse(s) == [i \in 1..Len(s) |-> s[Len(s) + 1 - i]]

\* the releases owed, in the order of the acquisitions, and the releases made
ReleasesOwed ==
    LET acq == SelectSeq(log, IsAcquisition)
    IN  [i \in 1..Len(acq) |-> ReleaseOf(acq[i].op)]
ReleasesMade ==
    LET rel == SelectSeq(log, IsRelease)
    IN  [i \in 1..Len(rel) |-> rel[i].op]

Before(opA, opB) ==
    \A i, j \in DOMAIN log : (log[i].op = opA /\ log[j].op = opB) => i < j

ReverseOrderRelease ==
    /\ Returned => ReleasesMade = Reverse(ReleasesOwed)
    /\ Before("WasmEdge_ParserCreate", "WasmEdge_ParserParseFromFile")
    /\ Before("WasmEdge_ParserParseFromFile", "WasmEdge_ValidatorCreate")
    /\ \A d \in DOMAIN log : IsRelease(log[d]) =>
          /\ \E r \in 1..(d - 1) : log[r].op = "Report"
          /\ \A i \in DOMAIN log : (i \in EngineCalls \/ log[i].op = "Report") => i < d

\* a validate run that created all three handles
ReverseOrderRelease_Witness ==
    /\ Returned
    /\ entered = "cmdValidate"
    /\ ReleasesMade = <<"WasmEdge_ValidatorDelete", "WasmEdge_ASTModuleDelete",
                        "WasmEdge_ParserDelete">>

\* C18: in cmdParse and cmdValidate the module handle left by the parse call
\* is owned whatever the outcome: a partial handle left by a failed call is
\* released exactly once before the return and never given to the validator;
\* when the call left no handle, no module release is performed.
ParseCalls == {i \in DOMAIN log : log[i].op = "WasmEdge_ParserParseFromFile"}
ModuleReleases == {i \in DOMAIN log : log[i].op = "WasmEdge_ASTModuleDelete"}

ModuleOwnership ==
    /\ (Returned /\ entered \in {"cmdParse", "cmdValidate"}) =>
          \A p \in ParseCalls :
              /\ log[p].out = Live => /\ Cardinality(ModuleReleases) = 1
                                      /\ \A d \in ModuleReleases : log[d].on = {Live}
              /\ log[p].out = Null => ModuleReleases = {}
    /\ Failed("WasmEdge_ParserParseFromFile")
          => ~\E i \in DOMAIN log : log[i].op = "WasmEdge_ValidatorValidate"

\* a validate run whose failed parse call left a partial module
ModuleOwnership_Witness ==
    /\ Returned
    /\ entered = "cmdValidate"
    /\ Failed("WasmEdge_ParserParseFromFile")
    /\ astModuleCtx = Freed

\* C19: with a known verb and a path that does not name an existing regular
\* file, main returns 1 without entering an entry point, acquiring a handle
\* or emitting a record; a path that exists but lacks the .wasm suffix only
\* adds a warning: the entry point is entered and the engine decides the
\* record and the exit code as for a path with the suffix.
WasmPaths == {"a.wasm"}   \* the tokens that end in .wasm
Warnings == SelectSeq(stderr, LAMBDA x : x.kind = "warning")

LocalFileCheck ==
    VerbAndPathRun =>
        /\ fsKind # "regular" =>
              /\ ret = <<EXIT_CLI_ERROR>>
              /\ NoEngineResourceTouched
              /\ AllRecords = <<>>
              /\ stdout = <<>>
              /\ stderr = <<[kind |-> "fileNotFound", stream |-> "cerr", file |-> filename]>>
        /\ fsKind = "regular" =>
              /\ Len(Warnings) = IF filename \in WasmPaths THEN 0 ELSE 1
              /\ stderr = Warnings \o Records(stderr)
              /\ DecidedByEngine
              /\ Len(AllRecords) = 1

\* a run on a missing path
LocalFileCheck_Witness ==
    /\ VerbAndPathRun
    /\ fsKind = "missing"
    /\ ret = <<EXIT_CLI_ERROR>>
    /\ Len(stderr) = 1

====
